---------------------------- MODULE Spec2Model ----------------------------
(***************************************************************************)
(* A model of urlscan.py.                                                  *)
(*                                                                         *)
(* extract_with_context is a step machine with one action per loop test    *)
(* or statement group of the source (SpecExtract).  parse_text_urls is a   *)
(* step machine over the module-level pattern URLRE, one action for the    *)
(* entry, one per finditer iteration and one for the tail and the return   *)
(* (SpecText); the link grammar is computed character by character, by     *)
(* the rules of a backtracking matcher: leftmost start, alternatives in    *)
(* order, greedy repetition that gives back what the rest needs.           *)
(*                                                                         *)
(* Python indices are 0-based; the model keeps start, length, extendlength *)
(* and loc exactly as the code does and reads lst[i] as Line(i).  Texts    *)
(* hold no newline (extracturls splits on them), so $ is the end of text.  *)
(***************************************************************************)
EXTENDS Integers, Sequences, FiniteSets, TLC

(* ------------------------------ bounds -------------------------------- *)
\* longest list of lines handed to extract_with_context
MaxLines == 5
\* largest before_context / after_context tried
MaxContext == 2
\* most pieces joined into one scanned text
MaxTokens == 3
\* most events html.parser delivers to one HTMLChunker
MaxEvents == 5

(* --------------------------- data (Chunk) ----------------------------- *)
\* Python's None
None == << "None" >>

\* Chunk(markup, url)
Chunk(markup, url) == [markup |-> markup, url |-> url]

\* the lines parse_text_urls can hand over, by shape: no chunk (an empty
\* line), one text chunk, one link chunk, text followed by a link
LineKinds ==
    { << >>,
      << Chunk(<< "t" >>, None) >>,
      << Chunk(None, << "u" >>) >>,
      << Chunk(<< "t" >>, None), Chunk(None, << "u" >>) >> }

RECURSIVE SeqsOfLen(_, _)
SeqsOfLen(S, n) ==
    IF n = 0 THEN { << >> }
    ELSE { Append(s, x) : s \in SeqsOfLen(S, n - 1), x \in S }

SeqsUpTo(S, n) == UNION { SeqsOfLen(S, k) : k \in 0..n }

(* --------------------------- state ------------------------------------ *)
VARIABLES
    lst,             \* argument: the list of lines
    before_context,  \* argument
    after_context,   \* argument
    start, length, extendlength, usedfirst, usedlast,   \* locals
    rval,            \* the result list of (window, usedfirst, usedlast)
    spans,           \* history: <<start, length>> of each appended window
    pc               \* position in extract_with_context

evars == << lst, before_context, after_context, start, length, extendlength,
            usedfirst, usedlast, rval, spans, pc >>

VARIABLES
    URLRE,           \* the module-level compiled pattern
    mesg,            \* argument of parse_text_urls: the line under scan
    regex,           \* argument of the latest parse_text_urls call
    loc,             \* local of parse_text_urls
    textrval,        \* rval of parse_text_urls: the chunks so far
    tpc              \* idle, in the loop, returned, or raised IndexError

tvars == << URLRE, mesg, regex, loc, textrval, tpc >>

VARIABLES
    htmlrval,        \* HTMLChunker.rval: the paragraphs, lists of chunks
    at_para_start, trailing_space, style_stack, anchor_stack, list_stack,
    in_style_or_script,                                 \* HTMLChunker fields
    aborted,         \* a handler raised IndexError
    vocab,           \* the events the document under parse is made of
    nevents,         \* history: the number of events handled
    event,           \* history: the event just handled
    items,           \* history: <li> events seen by each open list
    open_tags,       \* history: the open a, b, i and header elements
    wellnested       \* history: every end tag closed the innermost of them

hvars == << htmlrval, at_para_start, trailing_space, style_stack,
            anchor_stack, list_stack, in_style_or_script, aborted, vocab,
            nevents, event, items, open_tags, wellnested >>

vars == << evars, tvars, hvars >>

\* what each component leaves alone
ExtractFrame == UNCHANGED << tvars, hvars >>
TextFrame == UNCHANGED << evars, hvars >>
HTMLFrame == UNCHANGED << evars, tvars >>

(* --------------------- extract_with_context --------------------------- *)
\* the predicate extracturls passes: more than one chunk, or one link chunk
Pred(chunk) ==
    Len(chunk) > 1 \/ (Len(chunk) = 1 /\ chunk[1].url # None)

\* lst[i], 0-based
Line(i) == lst[i + 1]

\* lst[a:b]
Slice(a, b) == SubSeq(lst, a + 1, b)

\* while start < len(lst)
OuterCond == start < Len(lst)

\* "Extend to the next match" loop test
ExtendCond ==
    /\ start + length < Len(lst)
    /\ length < before_context + 1
    /\ ~Pred(Line(start + length))

\* the slide test without its look at the line
SlideCondBlind == start + length < Len(lst)

\* "Slide to the next match" loop test
SlideCond ==
    /\ start + length < Len(lst)
    /\ ~Pred(Line(start + length))

\* the abort test never taken
NoNextMatchNever == start + length > Len(lst)

\* "If there was no next match, abort here"
NoNextMatch == start + length = Len(lst)

\* the extend test stopping one line short of the end of the list
GrowCondShort ==
    /\ start + length + 1 < Len(lst)
    /\ Pred(Line(start + length))

\* "Now extend repeatedly until we can't find anything" loop test
GrowCond ==
    /\ start + length < Len(lst)
    /\ Pred(Line(start + length))

\* the 'after' context read one line too far
AfterCondLong ==
    /\ extendlength < after_context + 2
    /\ start + length + extendlength < Len(lst)
    /\ ~Pred(Line(start + length + extendlength))

\* "Read in the 'after' context" loop test
AfterCond ==
    /\ extendlength < after_context + 1
    /\ start + length + extendlength < Len(lst)
    /\ ~Pred(Line(start + length + extendlength))

\* "Didn't find a matching line", tested after length += extendlength
NoMatchAfter(len) ==
    /\ start + len < Len(lst)
    /\ ~Pred(Line(start + len))

\* "read in possible 'before' context from the next URL" loop test
BeforeCond ==
    /\ extendlength < before_context
    /\ start + length + extendlength < Len(lst)
    /\ ~Pred(Line(start + length + extendlength))

\* a URL follows the readahead: keep it
FoundBefore ==
    /\ start + length + extendlength < Len(lst)
    /\ Pred(Line(start + length + extendlength))

\* if length > 0 and start + length <= len(lst)
EmitGuard == length > 0 /\ start + length <= Len(lst)

\* if start == 0: usedfirst = True
UsedFirst == IF start = 0 THEN TRUE ELSE usedfirst

\* usedlast set one line before the end of the list as well
UsedLastEarly == IF start + length >= Len(lst) - 1 THEN TRUE ELSE usedlast

\* if start + length == len(lst): usedlast = True
UsedLast == IF start + length = Len(lst) THEN TRUE ELSE usedlast

\* start moved one line past the window
NextStartSkips == start + length + 1

\* start += length
NextStart == start + length

Outer ==
    /\ pc = "outer"
    /\ IF OuterCond
         THEN /\ usedfirst' = FALSE
              /\ usedlast' = FALSE
              /\ pc' = "extend"
         ELSE /\ pc' = "done"
              /\ UNCHANGED << usedfirst, usedlast >>
    /\ UNCHANGED << lst, before_context, after_context, start, length,
                    extendlength, rval, spans >>
    /\ ExtractFrame

Extend ==
    /\ pc = "extend"
    /\ IF ExtendCond
         THEN length' = length + 1 /\ pc' = "extend"
         ELSE length' = length /\ pc' = "slide"
    /\ UNCHANGED << lst, before_context, after_context, start, extendlength,
                    usedfirst, usedlast, rval, spans >>
    /\ ExtractFrame

Slide ==
    /\ pc = "slide"
    /\ IF SlideCond
         THEN start' = start + 1 /\ pc' = "slide"
         ELSE start' = start /\ pc' = "check"
    /\ UNCHANGED << lst, before_context, after_context, length, extendlength,
                    usedfirst, usedlast, rval, spans >>
    /\ ExtractFrame

Check ==
    /\ pc = "check"
    /\ pc' = IF NoNextMatch THEN "done" ELSE "grow"
    /\ UNCHANGED << lst, before_context, after_context, start, length,
                    extendlength, usedfirst, usedlast, rval, spans >>
    /\ ExtractFrame

Grow ==
    /\ pc = "grow"
    /\ IF GrowCond
         THEN extendlength' = 1 /\ pc' = "after"
         ELSE extendlength' = extendlength /\ pc' = "emit"
    /\ UNCHANGED << lst, before_context, after_context, start, length,
                    usedfirst, usedlast, rval, spans >>
    /\ ExtractFrame

After ==
    /\ pc = "after"
    /\ IF AfterCond
         THEN /\ extendlength' = extendlength + 1
              /\ length' = length
              /\ pc' = "after"
         ELSE /\ length' = length + extendlength
              /\ IF NoMatchAfter(length + extendlength)
                   THEN extendlength' = 1 /\ pc' = "before"
                   ELSE extendlength' = extendlength /\ pc' = "grow"
    /\ UNCHANGED << lst, before_context, after_context, start,
                    usedfirst, usedlast, rval, spans >>
    /\ ExtractFrame

Before ==
    /\ pc = "before"
    /\ IF BeforeCond
         THEN /\ extendlength' = extendlength + 1
              /\ length' = length
              /\ pc' = "before"
         ELSE /\ length' = IF FoundBefore THEN length + extendlength ELSE length
              /\ extendlength' = extendlength
              /\ pc' = "grow"
    /\ UNCHANGED << lst, before_context, after_context, start,
                    usedfirst, usedlast, rval, spans >>
    /\ ExtractFrame

Emit ==
    /\ pc = "emit"
    /\ IF EmitGuard
         THEN /\ usedfirst' = UsedFirst
              /\ usedlast' = UsedLast
              /\ rval' = Append(rval, << Slice(start, start + length),
                                         UsedFirst, UsedLast >>)
              /\ spans' = Append(spans, << start, length >>)
         ELSE UNCHANGED << usedfirst, usedlast, rval, spans >>
    /\ start' = NextStart
    /\ length' = 0
    /\ pc' = "outer"
    /\ UNCHANGED << lst, before_context, after_context, extendlength >>
    /\ ExtractFrame

(* ------------------------- Link grammar ------------------------------- *)
(* Text is a sequence of one-character strings; positions are 0-based as   *)
(* in Python, so the character at position p of s is s[p + 1].  A match    *)
(* function gives the position after the match, or NoMatch.                *)

NoMatch == -1

Max(S) == CHOOSE x \in S : \A y \in S : y <= x

\* s[a:b]
Sub(s, a, b) == SubSeq(s, a + 1, b)

\* the literal lit stands at position p of s
Lit(s, p, lit) ==
    /\ p + Len(lit) <= Len(s)
    /\ \A i \in 1..Len(lit) : s[p + i] = lit[i]

\* "sub in s" of Python strings
Contains(s, sub) == \E p \in 0..Len(s) : Lit(s, p, sub)

\* the characters of \w that the texts of the model are written with
WordChars ==
    { "a", "b", "c", "e", "f", "h", "i", "l", "m", "o", "p", "s", "t",
      "U", "R", "L" }

\* [{}()@\w/\\\-%?!&.=:;+,#~]
URLINTERNALPATTERN ==
    WordChars \cup { "{", "}", "(", ")", "@", "/", "\\", "-", "%", "?", "!",
                     "&", ".", "=", ":", ";", "+", ",", "#", "~" }

\* [{}(@\w/\-%&=+#$]
URLTRAILINGPATTERN ==
    WordChars \cup { "{", "}", "(", "@", "/", "-", "%", "&", "=", "+", "#",
                     "$" }

\* [\w\-%], the characters of a domain label
LabelChars == WordChars \cup { "-", "%" }

\* [\w\-.], the characters of an email local part and domain
EmailChars == WordChars \cup { "-", "." }

\* [\w\-], the last character of an email domain
EmailLastChars == WordChars \cup { "-" }

\* the top-level domains the source's own assertions name as loaded
TLDS == { << "c", "o", "m" >>, << "b", "i", "z" >> }

\* the end of the longest run of characters of C that starts at p
RECURSIVE RunEnd(_, _, _)
RunEnd(s, p, C) ==
    IF p < Len(s) /\ s[p + 1] \in C THEN RunEnd(s, p + 1, C) ELSE p

\* (https?|file|ftps?)://
SchemeEnd(s, p) ==
    IF Lit(s, p, << "h", "t", "t", "p", "s", ":", "/", "/" >>) THEN p + 8
    ELSE IF Lit(s, p, << "h", "t", "t", "p", ":", "/", "/" >>) THEN p + 7
    ELSE IF Lit(s, p, << "f", "i", "l", "e", ":", "/", "/" >>) THEN p + 7
    ELSE IF Lit(s, p, << "f", "t", "p", "s", ":", "/", "/" >>) THEN p + 7
    ELSE IF Lit(s, p, << "f", "t", "p", ":", "/", "/" >>) THEN p + 6
    ELSE NoMatch

\* HTTPURLPATTERN at p: the scheme, the longest run of interior characters
\* that still leaves one trailing character after it
HTTPURLPATTERN(s, p) ==
    LET q == SchemeEnd(s, p)
        r == RunEnd(s, q, URLINTERNALPATTERN)
        K == { k \in q..r : k < Len(s) /\ s[k + 1] \in URLTRAILINGPATTERN }
    IN  IF q = NoMatch \/ K = {} THEN NoMatch ELSE Max(K) + 1

\* GUESSEDURLPATTERN at p: labels joined by dots up to the end of the text
\* ($), the last label a top-level domain
GUESSEDURLPATTERN(s, p) ==
    LET n == Len(s)
        Dots == { d \in p..(n - 1) : s[d + 1] = "." }
        last == Max(Dots)
    IN  IF /\ Dots # {}
           /\ \A k \in p..(n - 1) : s[k + 1] \in LabelChars \cup { "." }
           /\ s[p + 1] # "."
           /\ \A d \in Dots : d + 1 < n /\ s[d + 2] # "."
           /\ Sub(s, last + 1, n) \in TLDS
        THEN n
        ELSE NoMatch

\* (?P<email>(mailto:)?[\w\-.]+@[\w\-.]*[\w\-]) at p
EmailPattern(s, p) ==
    LET q == IF Lit(s, p, << "m", "a", "i", "l", "t", "o", ":" >>)
             THEN p + 7 ELSE p
        r == RunEnd(s, q, EmailChars)
        e == RunEnd(s, r + 1, EmailChars)
        K == { k \in (r + 1)..(e - 1) : s[k + 1] \in EmailLastChars }
    IN  IF r > q /\ r < Len(s) /\ s[r + 1] = "@" /\ K # {}
        THEN Max(K) + 1
        ELSE NoMatch

\* the three alternatives in the order the pattern lists them
Alternative(s, q) ==
    LET h == HTTPURLPATTERN(s, q)
        g == GUESSEDURLPATTERN(s, q)
        e == EmailPattern(s, q)
    IN  IF h # NoMatch THEN [kind |-> "http", gend |-> h]
        ELSE IF g # NoMatch THEN [kind |-> "guessed", gend |-> g]
        ELSE IF e # NoMatch THEN [kind |-> "email", gend |-> e]
        ELSE [kind |-> "none", gend |-> NoMatch]

\* the optional closing > of the default pattern
CloseBracket(s, e) == IF e < Len(s) /\ s[e + 1] = ">" THEN e + 1 ELSE e

\* a match object: group(0) is s[start:end], group(1) is s[gstart:gend]
MatchObject(s, p, q) ==
    LET a == Alternative(s, q)
    IN  [start |-> p, gstart |-> q, gend |-> a.gend,
         end |-> IF a.gend = NoMatch THEN NoMatch ELSE CloseBracket(s, a.gend),
         kind |-> a.kind]

\* the default pattern at p: (?:<(?:URL:)?)? tried longest first, then the
\* alternatives, then >?
DefaultMatchAt(s, p) ==
    LET m2 == MatchObject(s, p, p + 5)
        m1 == MatchObject(s, p, p + 1)
    IN  IF Lit(s, p, << "<", "U", "R", "L", ":" >>) /\ m2.kind # "none" THEN m2
        ELSE IF Lit(s, p, << "<" >>) /\ m1.kind # "none" THEN m1
        ELSE MatchObject(s, p, p)

\* a caller's pattern, a literal: it has one group, group(0)
CustomMatchAt(pat, s, p) ==
    IF Lit(s, p, pat)
    THEN [start |-> p, gstart |-> p, gend |-> p + Len(pat),
          end |-> p + Len(pat), kind |-> "custom"]
    ELSE [start |-> p, gstart |-> p, gend |-> NoMatch, end |-> NoMatch,
          kind |-> "none"]

\* the pattern compiled at import
DefaultURLRE == << "URLRE" >>

MatchAt(re, s, p) ==
    IF re = DefaultURLRE THEN DefaultMatchAt(s, p) ELSE CustomMatchAt(re, s, p)

\* the next match finditer yields when it resumes at pos: the leftmost
RECURSIVE Search(_, _, _)
Search(re, s, pos) ==
    LET m == MatchAt(re, s, pos)
    IN  IF m.kind # "none" \/ pos >= Len(s) THEN m
        ELSE Search(re, s, pos + 1)

(* ------------------------- parse_text_urls ---------------------------- *)
MAILTO == << "m", "a", "i", "l", "t", "o" >>

\* if regex:
Truthy(r) == r # None /\ r # << >>

\* match.group("email")
GroupEmail(s, m) == IF m.kind = "email" THEN Sub(s, m.gstart, m.gend) ELSE None

\* if email and "mailto" not in email
NeedsMailto(email) == email # None /\ ~Contains(email, MAILTO)

\* match.group("email") on a pattern without that group raises
IndexError == << "IndexError" >>

\* the url of the link chunk of match m, or IndexError when the compiled
\* pattern has no group named email
LinkUrl(re, r, s, m) ==
    IF Truthy(r) THEN Sub(s, m.start, m.end)
    ELSE IF m.kind = "custom" THEN IndexError
    ELSE IF NeedsMailto(GroupEmail(s, m))
         THEN MAILTO \o << ":" >> \o GroupEmail(s, m)
         ELSE Sub(s, m.gstart, m.gend)

\* if loc < match.start(): the text before the match is a chunk
GapBefore(m) == loc < m.start

\* the tail test off by one
TailGuardShort == loc + 1 < Len(mesg)

\* if loc < len(mesg): the text after the last match is a chunk
TailGuard == loc < Len(mesg)

\* if regex: URLRE = re.compile(regex)
Compiled(r) == IF Truthy(r) THEN r ELSE URLRE

\* entry: rval = [], loc = 0, the pattern compiled when one is given
Call(r) ==
    /\ tpc \in { "idle", "returned", "raised" }
    /\ regex' = r
    /\ URLRE' = Compiled(r)
    /\ loc' = 0
    /\ textrval' = << >>
    /\ tpc' = "loop"
    /\ UNCHANGED mesg
    /\ TextFrame

\* one iteration of "for match in URLRE.finditer(mesg)"
ForMatch ==
    /\ tpc = "loop"
    /\ \E m \in { Search(URLRE, mesg, loc) } :
         /\ m.kind # "none"
         /\ \E url \in { LinkUrl(URLRE, regex, mesg, m) } :
              IF url = IndexError
              THEN /\ tpc' = "raised"
                   /\ UNCHANGED << loc, textrval >>
              ELSE /\ textrval' =
                        Append(IF GapBefore(m)
                               THEN Append(textrval,
                                           Chunk(Sub(mesg, loc, m.start), None))
                               ELSE textrval,
                               Chunk(None, url))
                   /\ loc' = m.end
                   /\ tpc' = "loop"
    /\ UNCHANGED << URLRE, mesg, regex >>
    /\ TextFrame

\* finditer is exhausted: the tail, and return rval
Return ==
    /\ tpc = "loop"
    /\ Search(URLRE, mesg, loc).kind = "none"
    /\ textrval' = IF TailGuard
                   THEN Append(textrval, Chunk(Sub(mesg, loc, Len(mesg)), None))
                   ELSE textrval
    /\ tpc' = "returned"
    /\ UNCHANGED << URLRE, mesg, regex, loc >>
    /\ TextFrame

\* the texts scanned: up to MaxTokens of these pieces, joined
Tokens ==
    { << "m", "a", "i", "l", "t", "o", ":" >>,
      << "m", "a", "i", "l", "t", "o" >>,
      << "a" >>,
      << "a", "@" >>,
      << "b", ".", "c", "o", "m" >>,
      << "h", "t", "t", "p", ":", "/", "/" >>,
      << " " >>,
      << "<" >>,
      << ">" >> }

RECURSIVE Joined(_)
Joined(n) ==
    IF n = 0 THEN { << >> }
    ELSE { s \o t : s \in Joined(n - 1), t \in Tokens }

Messages == UNION { Joined(k) : k \in 0..MaxTokens }

\* the patterns a caller passes: none, the empty one, literals
Regexes == { None, << >>, << "a" >>, << "@", "b" >> }

(* --------------------------- HTMLChunker ------------------------------ *)
(* The parser state of one HTMLChunker and the handlers html.parser calls  *)
(* on it, one action per handler.  Tags, attribute values and text are     *)
(* sequences of characters.  A handler that would index an empty list      *)
(* (Python's IndexError) sets aborted instead of changing the state.       *)

\* stack[-1]
Top(stack) == stack[Len(stack)]

\* del stack[-1]
Pop(stack) == SubSeq(stack, 1, Len(stack) - 1)

\* str.isspace, on the characters the texts of the model are written with
IsSpace(c) == c \in { " ", "\t", "\n" }

\* ' '.join(data.split()): runs of whitespace become one space, those at
\* either end are dropped
JoinSplit(data) ==
    LET n == Len(data)
        Word(i) == ~IsSpace(data[i])
        Keep(i) == \/ Word(i)
                   \/ /\ i > 1
                      /\ Word(i - 1)
                      /\ \E j \in (i + 1)..n : Word(j)
        K == { i \in 1..n : Keep(i) }
        Nth(k) == CHOOSE i \in K : Cardinality({ j \in K : j < i }) = k - 1
    IN  [k \in 1..Cardinality(K) |->
            IF Word(Nth(k)) THEN data[Nth(k)] ELSE " "]

\* tag_styles = {'b': 'bold', 'i': 'italic'}
BOLD == << "b", "o", "l", "d" >>
ITALIC == << "i", "t", "a", "l", "i", "c" >>
TagB == << "b" >>
TagI == << "i" >>
tag_styles == (TagB :> BOLD) @@ (TagI :> ITALIC)

\* ul_tags = ['*', '+', '-']
ul_tags == << "*", "+", "-" >>

TagA == << "a" >>
TagUL == << "u", "l" >>
TagOL == << "o", "l" >>
TagP == << "p" >>
TagBR == << "b", "r" >>
TagIMG == << "i", "m", "g" >>
TagLI == << "l", "i" >>
TagSTYLE == << "s", "t", "y", "l", "e" >>
TagSCRIPT == << "s", "c", "r", "i", "p", "t" >>

Digits == << "0", "1", "2", "3", "4", "5", "6", "7", "8", "9" >>

\* str.isdigit, one character
IsDigit(c) == \E d \in 1..10 : Digits[d] = c

\* isheadertag
isheadertag(tag) == Len(tag) = 2 /\ tag[1] = "h" /\ IsDigit(tag[2])

\* the order of characters that list.sort() sorts the style names by
Letters ==
    << "a", "b", "c", "d", "e", "f", "g", "h", "i", "j", "k", "l", "m",
       "n", "o", "p", "q", "r", "s", "t", "u", "v", "w", "x", "y", "z" >>

Rank(c) == CHOOSE r \in 1..26 : Letters[r] = c

\* s < t of Python strings
StrLess(s, t) ==
    \E i \in 1..(Len(t)) :
        /\ \A j \in 1..(i - 1) : j <= Len(s) /\ s[j] = t[j]
        /\ i - 1 <= Len(s)
        /\ (i > Len(s) \/ Rank(s[i]) < Rank(t[i]))

\* stylelist = list(styles); stylelist.sort(); ''.join(stylelist)
RECURSIVE JoinSorted(_)
JoinSorted(styles) ==
    IF styles = {} THEN << >>
    ELSE LET first == CHOOSE s \in styles :
                          \A t \in styles \ { s } : StrLess(s, t)
         IN  first \o JoinSorted(styles \ { first })

MSGTEXT == << "m", "s", "g", "t", "e", "x", "t" >>
ANCHOR == << "a", "n", "c", "h", "o", "r" >>

\* the style label without the styles in force
StyleLabelPlain(cur, styles) == IF cur = None THEN MSGTEXT ELSE ANCHOR

\* the style label handle_data builds
StyleLabel(cur, styles) ==
    (IF cur = None THEN MSGTEXT ELSE ANCHOR)
    \o (IF styles # {} THEN << ":" >> \o JoinSorted(styles) ELSE << >>)

\* "%2d." % counter
RECURSIVE Decimal(_)
Decimal(n) ==
    IF n < 10 THEN << Digits[n + 1] >>
    ELSE Decimal(n \div 10) \o << Digits[(n % 10) + 1] >>

NumberMarkup(counter) ==
    (IF Len(Decimal(counter)) < 2 THEN << " " >> ELSE << >>)
    \o Decimal(counter) \o << "." >>

\* '%s  ' % (ul_tags[depth % len(ul_tags)])
BulletMarkup(depth) == << ul_tags[(depth % Len(ul_tags)) + 1], " ", " " >>

\* ' ' * 3 * len(self.list_stack)
Indent(n) == [k \in 1..(3 * n) |-> " "]

\* self.rval[-1].append(chunk); no last paragraph: IndexError
AppendLast(r, chunk) ==
    IF r = << >> THEN r
    ELSE [r EXCEPT ![Len(r)] = Append(@, chunk)]

\* the output side of the parser state, as the helpers below pass it on
Out ==
    [rval |-> htmlrval, at_para_start |-> at_para_start,
     trailing_space |-> trailing_space, aborted |-> aborted]

\* add_chunk without its opening of a paragraph
add_chunk_same_para(o, chunk, cur) ==
    IF o.rval = << >>
    THEN [o EXCEPT !.aborted = TRUE]
    ELSE [rval |-> AppendLast(o.rval, chunk), at_para_start |-> FALSE,
          trailing_space |-> FALSE, aborted |-> o.aborted]

\* add_chunk
add_chunk(o, chunk, cur) ==
    LET r == IF o.at_para_start THEN Append(o.rval, << >>)
             ELSE IF o.trailing_space
                  THEN AppendLast(o.rval, Chunk(<< " " >>, cur))
                  ELSE o.rval
    IN  IF r = << >>
        THEN [o EXCEPT !.aborted = TRUE]
        ELSE [rval |-> AppendLast(r, chunk), at_para_start |-> FALSE,
              trailing_space |-> FALSE, aborted |-> o.aborted]

\* end_para
end_para(o, lists, cur) ==
    LET p == IF o.at_para_start
             THEN [o EXCEPT !.rval = Append(@, << >>),
                            !.trailing_space = FALSE]
             ELSE [o EXCEPT !.at_para_start = TRUE,
                            !.trailing_space = FALSE]
    IN  IF lists # << >>
        THEN add_chunk(p, Chunk(Indent(Len(lists)), cur), cur)
        ELSE p

\* the first counter of a list pushed by <ul> or <ol>
FirstCounter == 1

\* end_list_para without its count
ListStackKept(lists) == lists

\* end_list_para: the list stack after it
ListStackAfterItem(lists) ==
    IF lists # << >> /\ Top(lists)[1] # TagUL
    THEN [lists EXCEPT ![Len(lists)] = << @[1], @[2] + 1 >>]
    ELSE lists

\* end_list_para: the output after it
end_list_para(o, lists, cur) ==
    LET p == IF o.at_para_start
             THEN [o EXCEPT !.rval = Append(@, << >>)]
             ELSE o
        tag == Top(lists)[1]
        depth == Cardinality({ d \in 1..Len(lists) : lists[d][1] = tag })
    IN  IF lists # << >>
        THEN IF tag = TagUL
             THEN add_chunk(p, Chunk(BulletMarkup(depth), cur), cur)
             ELSE add_chunk(p, Chunk(NumberMarkup(Top(lists)[2]), cur), cur)
        ELSE end_para(p, lists, cur)

\* findattr: the value of the first attribute of that name, or None
findattr(attrs, searchattr) ==
    LET found == { k \in 1..Len(attrs) : attrs[k][1] = searchattr }
    IN  IF found = {} THEN None
        ELSE attrs[CHOOSE k \in found : \A j \in found : k <= j][2]

\* handle_data, given the anchor stack it sees
handle_data(o, data, anchors, styles) ==
    IF in_style_or_script THEN o
    ELSE IF anchors = << >> \/ styles = << >>
    THEN [o EXCEPT !.aborted = TRUE]
    ELSE
    LET leading == data # << >> /\ IsSpace(data[1])
        future_trailing_space == data # << >> /\ IsSpace(data[Len(data)])
        t == [o EXCEPT !.trailing_space = IF leading THEN TRUE ELSE @]
        c == add_chunk(t, Chunk(<< StyleLabel(Top(anchors), Top(styles)),
                                   JoinSplit(data) >>,
                                Top(anchors)),
                       Top(anchors))
    IN  [c EXCEPT !.trailing_space = future_trailing_space]

\* cur_url
cur_url == Top(anchor_stack)

HREF == << "h", "r", "e", "f" >>
ALT == << "a", "l", "t" >>
SRC == << "s", "r", "c" >>
IMG == << "[", "I", "M", "G", "]" >>
HTTP == << "h", "t", "t", "p", ":", "/", "/" >>
HTTPS == << "h", "t", "t", "p", "s", ":", "/", "/" >>

\* src.startswith(('http://',)): the test without its second prefix
StartsWithHttpOnly(src) == Lit(src, 0, HTTP)

\* src.startswith(('http://', 'https://'))
StartsWithHttp(src) == Lit(src, 0, HTTP) \/ Lit(src, 0, HTTPS)

\* the src an <img> keeps: None unless it is an external address
ImgSrc(attrs) ==
    LET src == findattr(attrs, SRC)
    IN  IF src # None /\ ~StartsWithHttp(src) THEN None ELSE src

\* the alt text of an <img>
ImgAlt(attrs) ==
    LET alt == findattr(attrs, ALT)
    IN  IF alt = None THEN IMG ELSE alt

\* the output side of the state after a handler
SetOut(o) ==
    /\ htmlrval' = o.rval
    /\ at_para_start' = o.at_para_start
    /\ trailing_space' = o.trailing_space
    /\ aborted' = o.aborted

\* a guard that lets a pop take the bottom entry too
CanPopBottom(stack) == Len(stack) >= 1

\* len(stack) > 0: the guard of a pop that may empty the stack
CanPopAll(stack) == Len(stack) > 0

\* len(stack) > 1: the guard of a pop that keeps the bottom entry
CanPop(stack) == Len(stack) > 1

\* handle_starttag
handle_starttag(tag, attrs) ==
    IF tag = TagA
    THEN /\ anchor_stack' = Append(anchor_stack, findattr(attrs, HREF))
         /\ SetOut(Out)
         /\ UNCHANGED << list_stack, style_stack, in_style_or_script >>
    ELSE IF tag \in { TagUL, TagOL }
    THEN /\ list_stack' = Append(list_stack, << tag, FirstCounter >>)
         /\ SetOut(end_para(Out, list_stack', cur_url))
         /\ UNCHANGED << anchor_stack, style_stack, in_style_or_script >>
    ELSE IF tag \in DOMAIN tag_styles
    THEN /\ style_stack' =
                Append(style_stack, Top(style_stack) \cup { tag_styles[tag] })
         /\ SetOut(Out)
         /\ UNCHANGED << anchor_stack, list_stack, in_style_or_script >>
    ELSE IF isheadertag(tag)
    THEN /\ style_stack' = Append(style_stack, Top(style_stack) \cup { BOLD })
         /\ SetOut(Out)
         /\ UNCHANGED << anchor_stack, list_stack, in_style_or_script >>
    ELSE IF tag \in { TagP, TagBR }
    THEN /\ SetOut(end_para(Out, list_stack, cur_url))
         /\ UNCHANGED << anchor_stack, list_stack, style_stack,
                         in_style_or_script >>
    ELSE IF tag = TagIMG
    THEN /\ SetOut(handle_data(Out, ImgAlt(attrs),
                               IF ImgSrc(attrs) # None
                               THEN Append(anchor_stack, ImgSrc(attrs))
                               ELSE anchor_stack,
                               style_stack))
         /\ anchor_stack' =
                IF ImgSrc(attrs) # None
                THEN Pop(Append(anchor_stack, ImgSrc(attrs)))
                ELSE anchor_stack
         /\ UNCHANGED << list_stack, style_stack, in_style_or_script >>
    ELSE IF tag = TagLI
    THEN /\ SetOut(end_list_para(Out, list_stack, cur_url))
         /\ list_stack' = ListStackAfterItem(list_stack)
         /\ UNCHANGED << anchor_stack, style_stack, in_style_or_script >>
    ELSE IF tag \in { TagSTYLE, TagSCRIPT }
    THEN /\ in_style_or_script' = TRUE
         /\ SetOut(Out)
         /\ UNCHANGED << anchor_stack, list_stack, style_stack >>
    ELSE /\ SetOut(Out)
         /\ UNCHANGED << anchor_stack, list_stack, style_stack,
                         in_style_or_script >>

\* handle_startendtag
handle_startendtag(tag, attrs) ==
    IF tag \in { TagP, TagBR, TagLI, TagIMG }
    THEN handle_starttag(tag, attrs)
    ELSE /\ SetOut(Out)
         /\ UNCHANGED << anchor_stack, list_stack, style_stack,
                         in_style_or_script >>

\* handle_endtag
handle_endtag(tag) ==
    IF tag = TagA
    THEN /\ anchor_stack' =
                IF CanPop(anchor_stack) THEN Pop(anchor_stack)
                ELSE anchor_stack
         /\ SetOut(Out)
         /\ UNCHANGED << list_stack, style_stack, in_style_or_script >>
    ELSE IF tag \in DOMAIN tag_styles
    THEN /\ style_stack' =
                IF CanPop(style_stack) THEN Pop(style_stack) ELSE style_stack
         /\ SetOut(Out)
         /\ UNCHANGED << anchor_stack, list_stack, in_style_or_script >>
    ELSE IF tag \in { TagUL, TagOL }
    THEN /\ list_stack' =
                IF CanPopAll(list_stack) THEN Pop(list_stack) ELSE list_stack
         /\ SetOut(end_para(Out, list_stack', cur_url))
         /\ UNCHANGED << anchor_stack, style_stack, in_style_or_script >>
    ELSE IF isheadertag(tag)
    THEN /\ style_stack' =
                IF CanPop(style_stack) THEN Pop(style_stack) ELSE style_stack
         /\ SetOut(end_para(Out, list_stack, cur_url))
         /\ UNCHANGED << anchor_stack, list_stack, in_style_or_script >>
    ELSE IF tag \in { TagSTYLE, TagSCRIPT }
    THEN /\ in_style_or_script' = FALSE
         /\ SetOut(Out)
         /\ UNCHANGED << anchor_stack, list_stack, style_stack >>
    ELSE /\ SetOut(Out)
         /\ UNCHANGED << anchor_stack, list_stack, style_stack,
                         in_style_or_script >>

\* int(name, base)
RECURSIVE ParseInt(_, _)
ParseInt(s, base) ==
    IF s = << >> THEN 0
    ELSE ParseInt(SubSeq(s, 1, Len(s) - 1), base) * base
         + (CHOOSE d \in 0..15 :
                << "0", "1", "2", "3", "4", "5", "6", "7", "8", "9",
                   "a", "b", "c", "d", "e", "f" >>[d + 1] = s[Len(s)])

\* chr, on the code points the references of the model name
Chr(char) == IF char = 65 THEN << "A" >> ELSE << " " >>

\* extrachars
extrachars ==
    (8212 :> << "-", "-" >>) @@ (8217 :> << "'" >>)
    @@ (8220 :> << "`", "`" >>) @@ (8221 :> << "'", "'" >>)
    @@ (8230 :> << ".", ".", "." >>)

\* the text handle_charref hands to handle_data
CharrefText(name) ==
    LET char == IF name[1] = "x" THEN ParseInt(SubSeq(name, 2, Len(name)), 16)
                ELSE ParseInt(name, 10)
    IN  IF char < 128 THEN Chr(char)
        ELSE IF char \in DOMAIN extrachars THEN extrachars[char]
        ELSE << "&", "#" >> \o name \o << ";" >>

\* entities
entities ==
    (<< "n", "b", "s", "p" >> :> << " " >>) @@ (<< "l", "t" >> :> << "<" >>)
    @@ (<< "g", "t" >> :> << ">" >>) @@ (<< "a", "m", "p" >> :> << "&" >>)
    @@ (<< "l", "d", "q", "u", "o" >> :> << "`", "`" >>)
    @@ (<< "r", "d", "q", "u", "o" >> :> << "'", "'" >>)
    @@ (<< "a", "p", "o", "s" >> :> << "'" >>)

\* the text handle_entityref hands to handle_data
EntityrefText(name) ==
    IF name \in DOMAIN entities THEN entities[name]
    ELSE << "&" >> \o name \o << ";" >>

\* a handler that only calls handle_data
OnlyData(data) ==
    /\ SetOut(handle_data(Out, data, anchor_stack, style_stack))
    /\ UNCHANGED << anchor_stack, list_stack, style_stack,
                    in_style_or_script >>

(* The events html.parser delivers.  An event is the handler called and   *)
(* its arguments; a document is a sequence of at most MaxEvents events    *)
(* over one vocabulary.  Between <style> or <script> and the end tag      *)
(* html.parser delivers the content as data only.                         *)

Event(ev, tag, attrs, data) ==
    [ev |-> ev, tag |-> tag, attrs |-> attrs, data |-> data]

NoEvent == Event("none", << >>, << >>, << >>)

X == << "x" >>
U == << "u" >>
TagH1 == << "h", "1" >>
TagH2 == << "h", "2" >>
TagDIV == << "d", "i", "v" >>

Vocabulary(starts, startends, ends, datas, charrefs, entityrefs) ==
    [start |-> starts, startend |-> startends, end |-> ends, data |-> datas,
     charref |-> charrefs, entityref |-> entityrefs]

\* anchors and character styles
VInline ==
    Vocabulary({ << TagA, << << HREF, U >> >> >>, << TagA, << >> >>,
                 << TagB, << >> >>, << TagI, << >> >> },
               {}, { TagA, TagB, TagI }, { X }, {}, {})

\* headers and paragraphs
VHeader ==
    Vocabulary({ << TagH1, << >> >> },
               { << TagP, << >> >> }, { TagH1, TagH2 },
               { X, << " ", "x", " ", " ", "x", " " >> }, {}, {})

\* lists
VList ==
    Vocabulary({ << TagOL, << >> >>, << TagUL, << >> >>, << TagLI, << >> >> },
               { << TagLI, << >> >> }, { TagOL, TagUL }, { X }, {}, {})

\* images
VImage ==
    Vocabulary({ << TagA, << << HREF, U >> >> >>,
                 << TagIMG, << >> >>,
                 << TagIMG, << << ALT, X >>, << SRC, HTTP \o U >> >> >>,
                 << TagIMG, << << SRC, HTTPS \o U >>, << SRC, U >> >> >>,
                 << TagIMG, << << SRC, U >>, << ALT, << >> >> >> >> },
               { << TagIMG, << << SRC, None >> >> >> }, { TagA }, {}, {}, {})

\* style, script and tags the chunker does not know
VStyle ==
    Vocabulary({ << TagSTYLE, << >> >>, << TagDIV, << >> >> },
               { << TagBR, << >> >>, << TagA, << << HREF, U >> >> >> },
               { TagSCRIPT, TagUL }, { X, << " " >> }, {}, {})

\* character and entity references
VRefs ==
    Vocabulary({}, {}, {}, { << "x", " " >> },
               { << "x", "4", "1" >>, << "8", "2", "1", "2" >>,
                 << "9", "9", "9" >> },
               { << "n", "b", "s", "p" >>, X })

Vocabularies == { VInline, VHeader, VList, VImage, VStyle, VRefs }

\* tags whose nesting the history below follows
Nests(tag) == tag = TagA \/ tag \in DOMAIN tag_styles \/ isheadertag(tag)

\* history: what the event just handled does to the open elements
Handled(e) ==
    /\ nevents < MaxEvents
    /\ nevents' = nevents + 1
    /\ event' = e
    /\ vocab' = vocab
    /\ items' =
          IF e.ev = "starttag" /\ e.tag \in { TagUL, TagOL }
          THEN Append(items, 0)
          ELSE IF e.ev = "endtag" /\ e.tag \in { TagUL, TagOL }
          THEN IF items # << >> THEN Pop(items) ELSE items
          ELSE IF e.ev \in { "starttag", "startendtag" } /\ e.tag = TagLI
                  /\ items # << >>
          THEN [items EXCEPT ![Len(items)] = @ + 1]
          ELSE items
    /\ open_tags' =
          IF e.ev = "starttag" /\ Nests(e.tag)
          THEN Append(open_tags, << e.tag, findattr(e.attrs, HREF) >>)
          ELSE IF e.ev = "endtag" /\ Nests(e.tag) /\ open_tags # << >>
          THEN Pop(open_tags)
          ELSE open_tags
    /\ wellnested' =
          /\ wellnested
          /\ (e.ev = "endtag" /\ Nests(e.tag)) =>
                (open_tags # << >> /\ Top(open_tags)[1] = e.tag)

\* html.parser reads tags and references (not inside style or script)
Markup == ~in_style_or_script

StartTag ==
    /\ Markup
    /\ \E s \in vocab.start :
          /\ handle_starttag(s[1], s[2])
          /\ Handled(Event("starttag", s[1], s[2], << >>))
    /\ HTMLFrame

StartEndTag ==
    /\ Markup
    /\ \E s \in vocab.startend :
          /\ handle_startendtag(s[1], s[2])
          /\ Handled(Event("startendtag", s[1], s[2], << >>))
    /\ HTMLFrame

EndTag ==
    /\ \E tag \in vocab.end :
          /\ Markup \/ tag \in { TagSTYLE, TagSCRIPT }
          /\ handle_endtag(tag)
          /\ Handled(Event("endtag", tag, << >>, << >>))
    /\ HTMLFrame

Data ==
    /\ \E data \in vocab.data :
          /\ OnlyData(data)
          /\ Handled(Event("data", << >>, << >>, data))
    /\ HTMLFrame

CharRef ==
    /\ Markup
    /\ \E name \in vocab.charref :
          /\ OnlyData(CharrefText(name))
          /\ Handled(Event("charref", << >>, << >>, name))
    /\ HTMLFrame

EntityRef ==
    /\ Markup
    /\ \E name \in vocab.entityref :
          /\ OnlyData(EntityrefText(name))
          /\ Handled(Event("entityref", << >>, << >>, name))
    /\ HTMLFrame

(* ------------------------- specifications ----------------------------- *)
\* the state of the module after import, before any call
TextIdle ==
    /\ URLRE = DefaultURLRE
    /\ regex = None
    /\ loc = 0
    /\ textrval = << >>
    /\ tpc = "idle"

ExtractIdle ==
    /\ before_context = 1
    /\ after_context = 1
    /\ start = 0
    /\ length = 0
    /\ extendlength = 0
    /\ usedfirst = FALSE
    /\ usedlast = FALSE
    /\ rval = << >>
    /\ spans = << >>
    /\ pc = "outer"

\* HTMLChunker.__init__
Constructed ==
    /\ htmlrval = << >>
    /\ at_para_start = TRUE
    /\ trailing_space = FALSE
    /\ style_stack = << {} >>
    /\ anchor_stack = << None >>
    /\ list_stack = << >>
    /\ in_style_or_script = FALSE
    /\ aborted = FALSE
    /\ nevents = 0
    /\ event = NoEvent
    /\ items = << >>
    /\ open_tags = << >>
    /\ wellnested = TRUE

\* no document under parse
HTMLIdle ==
    /\ Constructed
    /\ vocab = Vocabulary({}, {}, {}, {}, {}, {})

InitExtract ==
    /\ lst \in SeqsUpTo(LineKinds, MaxLines)
    /\ before_context \in 0..MaxContext
    /\ after_context \in 0..MaxContext
    /\ start = 0
    /\ length = 0
    /\ extendlength = 0
    /\ usedfirst = FALSE
    /\ usedlast = FALSE
    /\ rval = << >>
    /\ spans = << >>
    /\ pc = "outer"
    /\ TextIdle
    /\ mesg = << >>
    /\ HTMLIdle

NextExtract ==
    \/ Outer
    \/ Extend
    \/ Slide
    \/ Check
    \/ Grow
    \/ After
    \/ Before
    \/ Emit

SpecExtract == InitExtract /\ [][NextExtract]_vars

\* the function runs on: a step that can be taken is taken
SpecExtractFair == SpecExtract /\ WF_vars(NextExtract)

InitText ==
    /\ mesg \in Messages
    /\ TextIdle
    /\ lst = << >>
    /\ ExtractIdle
    /\ HTMLIdle

parse_text_urls == \E r \in Regexes : Call(r)

NextText ==
    \/ parse_text_urls
    \/ ForMatch
    \/ Return

SpecText == InitText /\ [][NextText]_vars

InitHTML ==
    /\ Constructed
    /\ vocab \in Vocabularies
    /\ TextIdle
    /\ mesg = << >>
    /\ lst = << >>
    /\ ExtractIdle

NextHTML ==
    \/ StartTag
    \/ StartEndTag
    \/ EndTag
    \/ Data
    \/ CharRef
    \/ EntityRef

SpecHTML == InitHTML /\ [][NextHTML]_vars

(* ======================= properties: the extractor ==================== *)
\* the system's own call: extract_with_context(..., 1, 1)
AsCalled == before_context = 1 /\ after_context = 1

\* line i (0-based) satisfies the predicate
LinkAt(i) == Pred(Line(i))

\* the indices of the k-th appended window
SpanOf(k) == spans[k][1]..(spans[k][1] + spans[k][2] - 1)

SpanStart(k) == spans[k][1]
SpanEnd(k) == spans[k][1] + spans[k][2]

\* the link-bearing indices of the k-th appended window
LinksOf(k) == { i \in SpanOf(k) : LinkAt(i) }

Min(S) == CHOOSE x \in S : \A y \in S : x <= y

\* C1: called with lead = trail = 1, the appended windows are the slices
\* lst[start:start+length] of index ranges that come in strictly increasing
\* order and never overlap, and once the scan is over every link-bearing
\* line lies in exactly one of them.
C1_WindowsCoverLinks ==
    AsCalled =>
        /\ \A k \in 1..Len(rval) :
              rval[k][1] = Slice(SpanStart(k), SpanEnd(k))
        /\ \A k \in 1..(Len(spans) - 1) :
              /\ SpanStart(k) < SpanStart(k + 1)
              /\ SpanEnd(k) <= SpanStart(k + 1)
        /\ pc = "done" =>
              \A i \in 0..(Len(lst) - 1) :
                  LinkAt(i) =>
                      Cardinality({ k \in 1..Len(spans) : i \in SpanOf(k) }) = 1

\* the scan is over and returned two windows, each with a link-bearing line
C1_Witness ==
    /\ AsCalled
    /\ pc = "done"
    /\ Len(spans) = 2
    /\ \A k \in 1..2 : LinksOf(k) # {}

\* C2: five lines, only index 2 link-bearing, lead = trail = 1: exactly one
\* window, covering [1,4), usedfirst = False and usedlast = False.
C2_FiveLinesOneLink ==
    ( /\ AsCalled
      /\ pc = "done"
      /\ Len(lst) = 5
      /\ \A i \in 0..4 : LinkAt(i) <=> i = 2 )
    => /\ Len(rval) = 1
       /\ spans[1] = << 1, 3 >>
       /\ rval[1] = << Slice(1, 4), FALSE, FALSE >>

\* C3: in every appended window at most before_context lines that are not
\* link-bearing precede the window's first link-bearing line: at most one
\* when called, as the system calls it, with lead = 1.
C3_LeadContextBounded ==
    AsCalled =>
        \A k \in 1..Len(spans) :
            LinksOf(k) # {} => Min(LinksOf(k)) - SpanStart(k) <= before_context

\* C4: called with lead = trail = 1, a link-bearing line of an appended
\* window has every link-bearing line one or two indices after it (at most
\* one line that is not link-bearing between them) in the same window; and
\* three lines with links at 0 and 2 give the single window [0,3) with
\* usedfirst = True.
C4_NearLinksShareWindow ==
    AsCalled =>
        /\ \A k \in 1..Len(spans) : \A i \in LinksOf(k) :
              \A j \in { i + 1, i + 2 } :
                  (j < Len(lst) /\ LinkAt(j)) => j \in SpanOf(k)
        /\ ( /\ pc = "done"
             /\ Len(lst) = 3
             /\ LinkAt(0) /\ LinkAt(2) )
           => /\ Len(rval) = 1
              /\ spans[1] = << 0, 3 >>
              /\ rval[1][1] = lst
              /\ rval[1][2] = TRUE

\* links at 0 and 2 around a line that is not one, scanned to the end
C4_Witness ==
    /\ AsCalled
    /\ pc = "done"
    /\ Len(lst) = 3
    /\ LinkAt(0) /\ ~LinkAt(1) /\ LinkAt(2)
    /\ Len(rval) = 1

\* C5: in every appended window at most after_context lines that are not
\* link-bearing follow the window's last link-bearing line.
C5_TrailContextBounded ==
    \A k \in 1..Len(spans) :
        LinksOf(k) # {} => SpanEnd(k) - 1 - Max(LinksOf(k)) <= after_context

\* a window that carries its full trailing context, with more lines after it
C5_Witness ==
    /\ after_context = 1
    /\ \E k \in 1..Len(spans) :
          /\ LinksOf(k) # {}
          /\ SpanEnd(k) - 1 - Max(LinksOf(k)) = 1
          /\ SpanEnd(k) < Len(lst)

\* C6: usedfirst is true exactly when the window starts at index 0 and
\* usedlast exactly when it ends at the end of the list; so only the first
\* window can have usedfirst and only the last can have usedlast.
C6_FlagsMarkEnds ==
    /\ \A k \in 1..Len(rval) :
          /\ rval[k][2] = (SpanStart(k) = 0)
          /\ rval[k][3] = (SpanEnd(k) = Len(lst))
          /\ rval[k][2] => k = 1
    /\ pc = "done" => \A k \in 1..Len(rval) : rval[k][3] => k = Len(rval)

\* two windows, the first from index 0 and the second up to the end
C6_Witness ==
    /\ pc = "done"
    /\ Len(rval) = 2
    /\ rval[1][2] /\ ~rval[1][3]
    /\ ~rval[2][2] /\ rval[2][3]

\* C7: a list without any link-bearing line, the empty list included,
\* gives the empty result.
C7_NoLinksNoWindows ==
    (\A i \in 0..(Len(lst) - 1) : ~LinkAt(i)) => rval = << >>

\* a scan of three or more lines, none link-bearing, ran to its end
C7_Witness ==
    /\ pc = "done"
    /\ Len(lst) >= 3
    /\ \A i \in 0..(Len(lst) - 1) : ~LinkAt(i)
    /\ rval = << >>


(* ================== properties: the extractor, continued ============== *)
\* C16: called with lead = trail = 1, two consecutive windows never touch:
\* the next window starts strictly after the index at which the one before
\* it ends, so at least one line is left out between them.
C16_WindowsNeverTouch ==
    AsCalled =>
        \A k \in 1..(Len(spans) - 1) : SpanEnd(k) < SpanStart(k + 1)

\* C17: the scan stays inside the list for every lead and trail: start and
\* length are never negative and start + length never passes len(lst), the
\* readahead of the two inner loops never passes it either, and every
\* appended slice is the full range [start, start + length) of the list.
C17_ScanStaysInBounds ==
    /\ 0 <= start
    /\ 0 <= length
    /\ start + length <= Len(lst)
    /\ pc \in { "after", "before" } =>
          /\ extendlength >= 1
          /\ start + length + extendlength <= Len(lst)
    /\ \A k \in 1..Len(spans) :
          /\ 0 <= SpanStart(k)
          /\ SpanEnd(k) <= Len(lst)
          /\ Len(rval[k][1]) = spans[k][2]

\* the 'after' readahead stands at the very end of a list of full length
C17_Witness ==
    /\ pc = "after"
    /\ Len(lst) = MaxLines
    /\ after_context = MaxContext
    /\ extendlength > 1
    /\ start + length + extendlength = Len(lst)

\* C18: the scan terminates: every pass of the outer loop that reaches the
\* append does so with length > 0, so start is strictly larger when the
\* outer test is next taken, and the function returns.
C18_Terminates ==
    /\ [][pc = "emit" => (length > 0 /\ start' > start)]_vars
    /\ <>(pc = "done")

\* the scan returned after appending more than one window
C18_Witness ==
    /\ pc = "done"
    /\ Len(spans) >= 2
    /\ start = Len(lst)

\* C19: every appended window is non-empty and holds at least one
\* link-bearing line.
C19_WindowsHoldALink ==
    \A k \in 1..Len(spans) :
        /\ spans[k][2] > 0
        /\ rval[k][1] # << >>
        /\ LinksOf(k) # {}

\* a window was appended after the scan slid over lines without links
C19_Witness ==
    /\ Len(spans) >= 1
    /\ SpanStart(1) > 0
    /\ LinksOf(1) # {}
    /\ ~LinkAt(0)

(* ======================= properties: the splitter ===================== *)
\* the pattern a call with these arguments would scan with if no earlier
\* call had left anything behind
OwnPattern == IF Truthy(regex) THEN regex ELSE DefaultURLRE

\* the text under scan holds no match of the pattern in use
NoLink == Search(URLRE, mesg, 0).kind = "none"

\* C8: the splitter holds no cross-call state: a call scans with the
\* pattern its own arguments name, so a call with regex=None scans with the
\* pattern compiled at import and cannot fail for lack of the email group,
\* and once a call is over the module-level pattern is the one compiled at
\* import.
C8_NoCrossCallState ==
    /\ tpc = "loop" => URLRE = OwnPattern
    /\ tpc # "raised"
    /\ tpc = "returned" => URLRE = DefaultURLRE

\* C9: a line without a link match, the empty line included, comes back
\* as exactly one chunk without url whose text is the line.
C9_NoLinkOneChunk ==
    (tpc = "returned" /\ NoLink) => textrval = << Chunk(mesg, None) >>

\* C9 as amended: a non-empty line without a link match comes back as
\* exactly one chunk without url whose text is the line; the empty line
\* comes back as no chunk at all.
C9_NoLinkOneChunkUnlessEmpty ==
    (tpc = "returned" /\ NoLink) =>
        textrval = IF mesg = << >> THEN << >> ELSE << Chunk(mesg, None) >>

\* a line of several characters, scanned with the default pattern, that
\* held no link
C9_Witness ==
    /\ tpc = "returned"
    /\ URLRE = DefaultURLRE
    /\ NoLink
    /\ Len(mesg) >= 2
    /\ textrval = << Chunk(mesg, None) >>

\* the url the claim gives the link chunk of match m: mailto: before an
\* email without that prefix, the matched text itself otherwise
ClaimedUrl(m) ==
    LET text == Sub(mesg, m.gstart, m.gend)
    IN  IF m.kind = "email" /\ ~Lit(text, 0, MAILTO \o << ":" >>)
        THEN MAILTO \o << ":" >> \o text
        ELSE text

\* C10: under the default pattern every link chunk appended by the loop
\* has the url of the claim: mailto: prepended to an email match that
\* lacks the prefix, the matched text of a prefixed email, of a scheme URL
\* and of a guessed domain as it stands.
C10_MailtoSynthesis ==
    [][ ( /\ tpc = "loop"
          /\ URLRE = DefaultURLRE
          /\ ~Truthy(regex)
          /\ Len(textrval') > Len(textrval) )
        => textrval'[Len(textrval')] \in
             { Chunk(None, ClaimedUrl(Search(URLRE, mesg, loc))),
               Chunk(Sub(mesg, loc, Len(mesg)), None) } ]_vars



(* ===================== properties: the HTML chunker =================== *)
\* the chunk appended last
LastChunk == Top(Top(htmlrval))

\* C11: after any sequence of tag and text events, unmatched closing tags
\* among them, the anchor stack and the style stack hold their bottom
\* entry, so the current target and the current style set are defined; no
\* handler has aborted; and a list close on an empty list stack pops nothing.
C11_StacksKeepTheirBase ==
    /\ [](/\ Len(anchor_stack) >= 1
          /\ Len(style_stack) >= 1
          /\ ~aborted
          /\ (cur_url = None \/ Len(cur_url) >= 1)
          /\ Top(style_stack) \subseteq { BOLD, ITALIC })
    /\ [][(list_stack = << >> /\ event'.ev = "endtag"
           /\ event'.tag \in { TagUL, TagOL }) => list_stack' = << >>]_vars

\* closing tags with nothing to close were handled
C11_Witness ==
    /\ ~wellnested
    /\ event.ev = "endtag"
    /\ event.tag \in { TagA, TagB, TagH1 }
    /\ open_tags = << >>
    /\ Len(anchor_stack) = 1
    /\ Len(style_stack) = 1

\* C20: when at_para_start is false the output has a last paragraph and it
\* holds a chunk; so add_chunk never indexes an empty output, and the
\* separating space add_chunk makes up never opens a paragraph.
C20_OpenParagraphHasAChunk ==
    /\ ~at_para_start => (htmlrval # << >> /\ Top(htmlrval) # << >>)
    /\ ~aborted
    /\ \A k \in 1..Len(htmlrval) :
          htmlrval[k] # << >> => Len(htmlrval[k][1].markup) # 1

\* a separating space was made up, behind another chunk
C20_Witness ==
    /\ ~at_para_start
    /\ Len(Top(htmlrval)) >= 3
    /\ Len(Top(htmlrval)[2].markup) = 1


\* the event handled by this step is of one of these kinds, on this tag
Handles(kinds, tag) ==
    nevents' = nevents + 1 /\ event'.ev \in kinds /\ event'.tag = tag

\* C12: a header tag forces a paragraph break when it opens and when it
\* closes: once it is handled the next chunk starts a paragraph, or a new
\* paragraph has been started already.
C12_HeaderBreaksParagraph ==
    [][(\E tag \in { TagH1, TagH2 } : Handles({ "starttag", "endtag" }, tag))
       => (at_para_start' \/ Len(htmlrval') > Len(htmlrval))]_vars

\* the src attribute handed to the <img> just handled
GivenSrc == findattr(event.attrs, SRC)

\* the src is one the spec calls external
GivenExternal ==
    GivenSrc # None /\ (Lit(GivenSrc, 0, HTTP) \/ Lit(GivenSrc, 0, HTTPS))

\* the alt text of the <img> just handled, [IMG] by default
GivenAlt ==
    IF findattr(event.attrs, ALT) = None THEN IMG
    ELSE JoinSplit(findattr(event.attrs, ALT))

\* C13, as the spec states it: an <img> with no src, or one that is not
\* http(s), appends its alt chunk with no url whatever encloses it; with an
\* http(s) src the url is the src; the anchor stack is as before.
C13_ImgAltCarriesNoLink ==
    [][Handles({ "starttag", "startendtag" }, TagIMG) =>
          /\ anchor_stack' = anchor_stack
          /\ LastChunk'.markup[2] = GivenAlt'
          /\ LastChunk'.url = IF GivenExternal' THEN GivenSrc' ELSE None]_vars

\* C13, amended: without an external src the alt chunk carries the target
\* of the innermost open anchor, and no url only where there is none.
C13_ImgAltCarriesEnclosingLink ==
    [][Handles({ "starttag", "startendtag" }, TagIMG) =>
          /\ anchor_stack' = anchor_stack
          /\ LastChunk'.markup[2] = GivenAlt'
          /\ LastChunk'.url =
                IF GivenExternal' THEN GivenSrc' ELSE Top(anchor_stack)]_vars

\* an <img> with a relative src was handled inside <a href>
C13_Witness ==
    /\ event.tag = TagIMG
    /\ GivenSrc # None
    /\ ~GivenExternal
    /\ Len(anchor_stack) = 2
    /\ LastChunk.url = U

\* C14: the counter of an ordered list starts at 1 and counts the <li>
\* handled while that list is the innermost; the k-th of them appends the
\* number chunk of k; lists opened and closed in between leave it alone.
C14_ItemsAreNumbered ==
    /\ Len(items) = Len(list_stack)
    /\ \A d \in 1..Len(list_stack) :
          list_stack[d][1] = TagOL => list_stack[d][2] = items[d] + 1
    /\ (/\ event.ev \in { "starttag", "startendtag" }
        /\ event.tag = TagLI
        /\ list_stack # << >>
        /\ Top(list_stack)[1] = TagOL) =>
           LastChunk.markup = << " ", Digits[Top(items) + 1], "." >>

\* two ordered lists, one inside the other, one item each
C14_Witness ==
    /\ event.tag = TagLI
    /\ list_stack = << << TagOL, 2 >>, << TagOL, 2 >> >>
    /\ LastChunk.markup = << " ", "1", "." >>

\* the target of the innermost open anchor
OpenTarget ==
    LET anchors == { d \in 1..Len(open_tags) : open_tags[d][1] = TagA }
    IN  IF anchors = {} THEN None ELSE open_tags[Max(anchors)][2]

OpenBold ==
    \E d \in 1..Len(open_tags) :
        open_tags[d][1] = TagB \/ isheadertag(open_tags[d][1])

OpenItalic == \E d \in 1..Len(open_tags) : open_tags[d][1] = TagI

=============================================================================
